---- MODULE Spec2Model ----
(***************************************************************************)
(* Model of the upload/analysis orchestration of Manthan-AI: the           *)
(* FileUpload component (onDrop and the dropzone that feeds it) together   *)
(* with the fallback data provider it uses.                                *)
(*                                                                         *)
(* JavaScript is single threaded and run-to-completion: every action below *)
(* is the synchronous code that runs between two suspension points (an     *)
(* await or a timer) of one onDrop run, or one UI event handler.           *)
(***************************************************************************)
EXTENDS Integers, Sequences, FiniteSets, TLC

\* ---------------------------------------------------------------- bounds
MaxRuns == 2            \* onDrop invocations followed per behaviour
MaxBusyAttempts == 1    \* submission attempts made while isProcessing is true
RandDenom == 4          \* Math.random() is drawn from {k / RandDenom}
MaxSegs == 2            \* transcript segments of a raw backend response
MaxProbes == 2          \* checkApiHealth calls followed per behaviour
MaxCalls == 2           \* ApiClient calls followed per behaviour
MaxPageRuns == 1        \* upload runs followed together with the page around FileUpload

\* ------------------------------------------------------------- constants
MAX_FILE_SIZE == 25 * 1024 * 1024
UploadStep == 5
UploadEnd == 30
TranscribeEnd == 60
ClosingStep == 10
\* Variant: the closing loop stops one tick early.
ClosingEndShort == TranscribeEnd + 3 * ClosingStep
ClosingEnd == 100

Null == "null"

\* JavaScript values: undefined, strings, numbers and arrays, each under its
\* own tag.
Undefined == [undef |-> TRUE]
Str(s) == [str |-> s]
Num(n) == [num |-> n]
Arr(a) == [arr |-> a]

\* What `||` and `if` take for true: not undefined, not '' and not 0.
Truthy(v) == v # Undefined /\ v # Str("") /\ v # Num(0)

ACCEPTED_FORMATS ==
    [ mime |-> {"audio/mpeg", "audio/wav", "audio/mp4", "video/mp4"},
      ext  |-> {".mp3", ".wav", ".m4a", ".mp4"} ]

\* Files a user can drop: allowed and other types, at sizes around the limit.
Files ==
    { [mime |-> "audio/mpeg", ext |-> ".mp3", size |-> 1],
      [mime |-> "video/mp4",  ext |-> ".mp4", size |-> MAX_FILE_SIZE],
      [mime |-> "audio/mpeg", ext |-> ".mp3", size |-> MAX_FILE_SIZE + 1],
      [mime |-> "text/plain", ext |-> ".txt", size |-> 1],
      [mime |-> "text/plain", ext |-> ".mp3", size |-> 1] }

\* The dropzone's accept / maxSize filter: a file is accepted when its MIME
\* type or its extension is on the allow-list and it is not over maxSize.
FileAccepted(file) ==
    /\ (file.mime \in ACCEPTED_FORMATS.mime \/ file.ext \in ACCEPTED_FORMATS.ext)
    /\ file.size <= MAX_FILE_SIZE

\* The dropzone calls onDrop(acceptedFiles, fileRejections) for every drop;
\* a file that fails the filter is moved to fileRejections, which onDrop
\* does not look at.
AcceptedFiles(file) == IF FileAccepted(file) THEN <<file>> ELSE <<>>

\* ------------------------------------------------------------ result data
\* The parts of a segment, an action item and a decision that the code reads.
Segment(t) == [text |-> Str(t)]
Item(t) == [text |-> Str(t)]
Decision(t) == [decision |-> Str(t)]

\* utils/demoData.ts, contents shortened.
SampleAnalysisResults ==
    [ transcript      |-> Arr(<< Segment("Good morning everyone"), Segment("Thanks John") >>),
      summary         |-> Str("sample summary"),
      action_items    |-> Arr(<< Item("sample item 1"), Item("sample item 2") >>),
      key_decisions   |-> Arr(<< Decision("sample decision 1") >>),
      processing_time |-> Num(45) ]

variations ==
    [ transcript    |-> << Arr(<< Segment("v0 segment 1"), Segment("v0 segment 2") >>) >>,
      summary       |-> << Str("v0 summary"), Str("v1 summary"),
                           Str("v2 summary"), Str("v3 summary") >>,
      action_items  |-> << Arr(<< Item("v0 item 1"), Item("v0 item 2") >>) >>,
      key_decisions |-> << Arr(<< Decision("v0 decision 1"), Decision("v0 decision 2") >>) >> ]

\* JavaScript array indexing (zero based); out of range reads undefined.
At(arr, idx) == IF idx + 1 \in DOMAIN arr THEN arr[idx + 1] ELSE Undefined

\* a || b
OrElse(a, b) == IF Truthy(a) THEN a ELSE b

RandomDraws == 0 .. (RandDenom - 1)

\* Variant: Math.round in place of Math.floor.
RandomIndexRound(k, len) == (2 * k * len + RandDenom) \div (2 * RandDenom)

\* Math.floor(Math.random() * len) with Math.random() = k / RandDenom
RandomIndex(k, len) == (k * len) \div RandDenom

\* Math.random() * 60 + 20 with Math.random() = k / RandDenom, in whole seconds
RandomTime(k) == ((k * 60) \div RandDenom) + 20

\* generateRandomResults of utils/demoData.ts, Math.random() returning
\* k1/RandDenom and then k2/RandDenom.
GenerateRandomResults(k1, k2) ==
    LET randomIndex == RandomIndex(k1, Len(variations.transcript))
    IN [ transcript      |-> At(variations.transcript, randomIndex),
         summary         |-> At(variations.summary, randomIndex),
         action_items    |-> OrElse(At(variations.action_items, randomIndex),
                                    At(variations.action_items, 0)),
         key_decisions   |-> OrElse(At(variations.key_decisions, randomIndex),
                                    At(variations.key_decisions, 0)),
         processing_time |-> Num(RandomTime(k2)) ]

FallbackResults == { GenerateRandomResults(k1, k2) : k1 \in RandomDraws, k2 \in RandomDraws }

\* Bodies a success response of POST /analyze can parse to: a full one and
\* one with optional parts missing.
BackendBodies ==
    { [ transcript      |-> Arr(<< Segment("backend segment") >>),
        summary         |-> Str("backend summary"),
        action_items    |-> Arr(<< Item("backend item") >>),
        key_decisions   |-> Arr(<< Decision("backend decision") >>),
        processing_time |-> Num(12) ],
      [ transcript      |-> Arr(<< Segment("backend segment") >>),
        summary         |-> Undefined,
        action_items    |-> Undefined,
        key_decisions   |-> Arr(<< Decision("backend decision") >>),
        processing_time |-> Undefined ] }

\* What building the FormData of a run does: nothing thrown, an Error thrown,
\* or a value thrown that is not an Error.
LocalOutcomes ==
    { [thrown |-> FALSE, isError |-> FALSE, message |-> ""],
      [thrown |-> TRUE,  isError |-> TRUE,  message |-> "FormData failed"],
      [thrown |-> TRUE,  isError |-> FALSE, message |-> ""] }

NoThrow == [thrown |-> FALSE, isError |-> FALSE, message |-> ""]

DropzoneErrors == { "dropzone failed" }

\* ------------------------------------------------------------------ state
VARIABLES
    isProcessing,    \* parent state handed down as a prop
    uploadProgress,  \* useState(0)
    processingStep,  \* useState('')
    error,           \* useState(null)
    nruns,           \* onDrop invocations so far
    pc,              \* per run: where the async onDrop is suspended
    i,               \* per run: the loop variable of the current for loop
    isDemoMode,      \* per run
    results,         \* per run: the local `results`
    origin,          \* per run: what the user did ("demo", "valid", "rejected")
    localErr,        \* per run: what building the FormData did
    apiOutcome,      \* per run: how the analysis call ended
    delivered,       \* per run: values passed to onFileAnalyzed, in order
    errorsSet,       \* per run: number of setError(non-null) calls
    fetches,         \* per run: number of fetch('/analyze') calls
    nevents,         \* per run: progress ticks, label changes and outcomes emitted
    busyAttempts,    \* submission attempts made while isProcessing was true
    apiStatus,       \* Header: useState('checking')
    probe,           \* Header: per checkApiHealth call, where it is suspended
    nprobes,         \* Header: checkApiHealth calls started so far
    api,             \* ApiClient: the client and the call it is serving
    call,            \* the pure function applied last, its input and output
    isAuthenticated, \* HomePage: useState(false)
    route            \* the router's current location

vars == << isProcessing, uploadProgress, processingStep, error, nruns, pc, i,
           isDemoMode, results, origin, localErr, apiOutcome, delivered,
           errorsSet, fetches, nevents, busyAttempts, apiStatus, probe,
           nprobes, api, call, isAuthenticated, route >>

uploadVars == << isProcessing, uploadProgress, processingStep, error, nruns, pc,
                 i, isDemoMode, results, origin, localErr, apiOutcome,
                 delivered, errorsSet, fetches, nevents, busyAttempts >>
headerVars == << apiStatus, probe, nprobes >>
homeVars == << isAuthenticated, route >>

\* What a step of the upload component leaves alone.
others == << headerVars, api, call, homeVars >>

task == << isProcessing, uploadProgress, processingStep, error >>
runState == << pc, i, isDemoMode, results, origin, localErr, apiOutcome,
               delivered, errorsSet, fetches, nevents >>

Runs == 1 .. MaxRuns

UploadInit ==
    /\ isProcessing = FALSE
    /\ uploadProgress = 0
    /\ processingStep = ""
    /\ error = Null
    /\ nruns = 0
    /\ pc = [r \in Runs |-> "idle"]
    /\ i = [r \in Runs |-> 0]
    /\ isDemoMode = [r \in Runs |-> FALSE]
    /\ results = [r \in Runs |-> Undefined]
    /\ origin = [r \in Runs |-> "none"]
    /\ localErr = [r \in Runs |-> NoThrow]
    /\ apiOutcome = [r \in Runs |-> "none"]
    /\ delivered = [r \in Runs |-> <<>>]
    /\ errorsSet = [r \in Runs |-> 0]
    /\ fetches = [r \in Runs |-> 0]
    /\ nevents = [r \in Runs |-> 0]
    /\ busyAttempts = 0

\* Header before its effect has run.
Probes == 1 .. MaxProbes

HeaderInit ==
    /\ apiStatus = "checking"
    /\ probe = [p \in Probes |-> "idle"]
    /\ nprobes = 0

\* The ApiClient variants of the repository: lib/api.ts normalises the
\* response, the older client returns it as parsed, and the Auth0 client
\* takes an optional credential accessor.
Clients ==
    { [transforms |-> TRUE,  hasAccessor |-> FALSE],
      [transforms |-> FALSE, hasAccessor |-> FALSE],
      [transforms |-> TRUE,  hasAccessor |-> TRUE] }

\* A constructed client that has served ncalls calls and is serving none.
ApiIdle(client, ncalls) ==
    [ client  |-> client,
      ncalls  |-> ncalls,
      method  |-> "none",
      pc      |-> "idle",
      asked   |-> 0,
      token   |-> "none",
      sent    |-> FALSE,
      auth    |-> Undefined,
      status  |-> 0,
      body    |-> Undefined,
      outcome |-> [kind |-> "none"] ]

ApiInit == \E client \in Clients : api = ApiIdle(client, 0)

NoCall == [fn |-> "none"]

FnInit == call = NoCall

\* HomePage shows FileUpload: the user is signed in and the location is '/'.
Rendered == isAuthenticated /\ route = "/"

\* The page as FileUpload needs it to exist at all.
SignedInInit == isAuthenticated = TRUE /\ route = "/"

Init ==
    /\ UploadInit
    /\ HeaderInit
    /\ api = ApiIdle([transforms |-> TRUE, hasAccessor |-> FALSE], 0)
    /\ FnInit
    /\ SignedInInit

Active(r) == pc[r] \notin {"idle", "done"}
ActiveRuns == { r \in Runs : Active(r) }

\* ---------------------------------------------------------------- the UI
\* Variant: the upload widgets stay rendered while a run is in flight.
ShowsProcessingViewNever == FALSE

\* `if (isProcessing) return <processing view>`: neither the dropzone root
\* nor the Try Demo button is rendered.
ShowsProcessingView == isProcessing

\* useDropzone({ disabled: isProcessing })
DropzoneDisabled == isProcessing

IsDemoMode(acceptedFiles) == Len(acceptedFiles) = 0

\* Variant: the catch block drops the message of the error.
ErrorMessageGeneric(err) == "Upload failed"

\* catch (err) of onDrop
ErrorMessage(err) == IF err.isError THEN err.message ELSE "Upload failed"

\* Variant: the catch block leaves a label behind instead of clearing it.
OuterCatchKeepsLabel(r, err) ==
    /\ error' = ErrorMessage(err)
    /\ isProcessing' = FALSE
    /\ uploadProgress' = 0
    /\ processingStep' = "Failed"
    /\ pc' = [pc EXCEPT ![r] = "done"]
    /\ errorsSet' = [errorsSet EXCEPT ![r] = @ + 1]
    /\ nevents' = [nevents EXCEPT ![r] = @ + 1]

OuterCatch(r, err) ==
    /\ error' = ErrorMessage(err)
    /\ isProcessing' = FALSE
    /\ uploadProgress' = 0
    /\ processingStep' = ""
    /\ pc' = [pc EXCEPT ![r] = "done"]
    /\ errorsSet' = [errorsSet EXCEPT ![r] = @ + 1]
    /\ nevents' = [nevents EXCEPT ![r] = @ + 1]

\* onDrop up to its first await.  local is what building the FormData does;
\* a demo run builds no FormData.
OnDrop(acceptedFiles, from, local) ==
    LET r == nruns + 1 IN
    /\ UNCHANGED others
    /\ nruns < MaxRuns
    /\ nruns' = r
    /\ isDemoMode' = [isDemoMode EXCEPT ![r] = IsDemoMode(acceptedFiles)]
    /\ origin' = [origin EXCEPT ![r] = from]
    /\ localErr' = [localErr EXCEPT ![r] =
                        IF IsDemoMode(acceptedFiles) THEN NoThrow ELSE local]
    /\ IF ~IsDemoMode(acceptedFiles) /\ local.thrown
       THEN /\ OuterCatch(r, local)
            /\ UNCHANGED << i, results, apiOutcome, delivered, fetches >>
       ELSE /\ error' = Null
            /\ isProcessing' = TRUE
            /\ processingStep' = "Uploading..."
            /\ uploadProgress' = 0
            /\ i' = [i EXCEPT ![r] = 0]
            /\ pc' = [pc EXCEPT ![r] = "uploading"]
            /\ nevents' = [nevents EXCEPT ![r] = @ + 2]
            /\ UNCHANGED << results, apiOutcome, delivered, errorsSet, fetches >>

\* Variant: a submission attempt made during a run cancels that run.
RefusedCancels ==
    /\ busyAttempts < MaxBusyAttempts
    /\ busyAttempts' = busyAttempts + 1
    /\ error' = "Cancelled"
    /\ isProcessing' = FALSE
    /\ uploadProgress' = 0
    /\ processingStep' = ""
    /\ pc' = [r \in Runs |-> IF Active(r) THEN "done" ELSE pc[r]]
    /\ errorsSet' = [r \in Runs |-> IF Active(r) THEN errorsSet[r] + 1 ELSE errorsSet[r]]
    /\ UNCHANGED << nruns, i, isDemoMode, results, origin, localErr, apiOutcome,
                    delivered, fetches, nevents, others >>

\* A submission attempt made while the component cannot take it.
Refused ==
    /\ busyAttempts < MaxBusyAttempts
    /\ busyAttempts' = busyAttempts + 1
    /\ UNCHANGED << task, nruns, runState, others >>

CountAttempt ==
    IF isProcessing
    THEN busyAttempts < MaxBusyAttempts /\ busyAttempts' = busyAttempts + 1
    ELSE UNCHANGED busyAttempts

\* Variant: the dropzone hands every drop to onDrop, also while processing.
DropUnguarded(file, local) ==
    /\ CountAttempt
    /\ OnDrop(AcceptedFiles(file),
              IF FileAccepted(file) THEN "valid" ELSE "rejected", local)

\* The user drops one file on the dropzone.
Drop(file, local) ==
    IF ShowsProcessingView \/ DropzoneDisabled
    THEN Refused
    ELSE /\ CountAttempt
         /\ OnDrop(AcceptedFiles(file),
                   IF FileAccepted(file) THEN "valid" ELSE "rejected", local)

\* The user clicks Try Demo: onDrop([]).
TryDemo ==
    IF ShowsProcessingView
    THEN Refused
    ELSE /\ CountAttempt
         /\ OnDrop(<<>>, "demo", NoThrow)

\* useDropzone({ onError: (err) => setError(err.message) })
OnError(msg) ==
    /\ ~ShowsProcessingView
    /\ ~DropzoneDisabled
    /\ error # msg
    /\ error' = msg
    /\ UNCHANGED << isProcessing, uploadProgress, processingStep, nruns,
                    runState, busyAttempts, others >>

\* Variant: the demo branch takes its data from the random fallback.
DemoResultsRandom == GenerateRandomResults(0, 0)

\* results = sampleAnalysisResults
DemoResults == SampleAnalysisResults

\* ------------------------------------------------------- the steps of a run
\* for (let i = 0; i <= 30; i += 5) { setUploadProgress(i); await 100ms }
\* and, once the loop is left, the first iteration of the next loop.
UploadTick(r) ==
    /\ pc[r] = "uploading"
    /\ IF i[r] + UploadStep <= UploadEnd
       THEN /\ i' = [i EXCEPT ![r] = @ + UploadStep]
            /\ uploadProgress' = i[r] + UploadStep
            /\ nevents' = [nevents EXCEPT ![r] = @ + 1]
            /\ UNCHANGED << processingStep, pc >>
       ELSE /\ processingStep' = "Transcribing..."
            /\ i' = [i EXCEPT ![r] = UploadEnd]
            /\ uploadProgress' = UploadEnd
            /\ pc' = [pc EXCEPT ![r] = "transcribing"]
            /\ nevents' = [nevents EXCEPT ![r] = @ + 2]
    /\ UNCHANGED << isProcessing, error, nruns, isDemoMode, results, origin, localErr,
                    apiOutcome, delivered, errorsSet, fetches, busyAttempts, others >>

\* for (let i = 30; i <= 60; i += 5) { setUploadProgress(i); await 200ms }
\* then 'Analyzing...' and either the demo branch or the fetch.
TranscribeTick(r) ==
    /\ pc[r] = "transcribing"
    /\ IF i[r] + UploadStep <= TranscribeEnd
       THEN /\ i' = [i EXCEPT ![r] = @ + UploadStep]
            /\ uploadProgress' = i[r] + UploadStep
            /\ nevents' = [nevents EXCEPT ![r] = @ + 1]
            /\ UNCHANGED << processingStep, pc, results, fetches >>
       ELSE /\ processingStep' = "Analyzing..."
            /\ nevents' = [nevents EXCEPT ![r] = @ + 1]
            /\ UNCHANGED << i, uploadProgress >>
            /\ IF isDemoMode[r]
               THEN /\ results' = [results EXCEPT ![r] = DemoResults]
                    /\ pc' = [pc EXCEPT ![r] = "demoWait"]
                    /\ UNCHANGED fetches
               ELSE /\ fetches' = [fetches EXCEPT ![r] = @ + 1]
                    /\ pc' = [pc EXCEPT ![r] = "fetching"]
                    /\ UNCHANGED results
    /\ UNCHANGED << isProcessing, error, nruns, isDemoMode, origin, localErr, apiOutcome,
                    delivered, errorsSet, busyAttempts, others >>

\* Variant: the closing loop starts over from 0.
EnterClosingRestart(r) ==
    /\ i' = [i EXCEPT ![r] = 0]
    /\ uploadProgress' = 0
    /\ pc' = [pc EXCEPT ![r] = "closing"]
    /\ nevents' = [nevents EXCEPT ![r] = @ + 1]

\* First iteration of for (let i = 60; i <= 100; i += 10).
EnterClosing(r) ==
    /\ i' = [i EXCEPT ![r] = TranscribeEnd]
    /\ uploadProgress' = TranscribeEnd
    /\ pc' = [pc EXCEPT ![r] = "closing"]
    /\ nevents' = [nevents EXCEPT ![r] = @ + 1]

\* The 1500ms pause of the demo branch ends.
DemoWaitDone(r) ==
    /\ pc[r] = "demoWait"
    /\ EnterClosing(r)
    /\ UNCHANGED << isProcessing, processingStep, error, nruns, isDemoMode,
                    results, origin, localErr, apiOutcome, delivered, errorsSet, fetches,
                    busyAttempts, others >>

\* Variant: the failure of the analysis call reaches the outer catch.
CatchApiErrorRethrow(r, why) ==
    /\ OuterCatch(r, [thrown |-> TRUE, isError |-> TRUE, message |-> "Server error"])
    /\ apiOutcome' = [apiOutcome EXCEPT ![r] = why]
    /\ UNCHANGED << nruns, i, isDemoMode, results, origin, localErr, delivered,
                    fetches, busyAttempts, others >>

\* catch (apiError): results = generateRandomResults(); await 1500ms
CatchApiError(r, why) ==
    /\ \E k1 \in RandomDraws, k2 \in RandomDraws :
          results' = [results EXCEPT ![r] = GenerateRandomResults(k1, k2)]
    /\ apiOutcome' = [apiOutcome EXCEPT ![r] = why]
    /\ pc' = [pc EXCEPT ![r] = "fallbackWait"]
    /\ UNCHANGED << task, nruns, i, isDemoMode, origin, localErr, delivered, errorsSet,
                    fetches, nevents, busyAttempts, others >>

\* fetch rejects: the request could not be completed.
FetchRejects(r) ==
    /\ pc[r] = "fetching"
    /\ CatchApiError(r, "network")

\* Variant: a success response moves the progress bar before it is parsed.
FetchResolvesTicks(r, ok) ==
    /\ pc[r] = "fetching"
    /\ IF ok
       THEN /\ pc' = [pc EXCEPT ![r] = "parsing"]
            /\ uploadProgress' = TranscribeEnd + UploadStep
            /\ UNCHANGED << isProcessing, processingStep, error, nruns, i,
                            isDemoMode, results, origin, localErr,
                            apiOutcome, delivered, errorsSet, fetches, nevents,
                            busyAttempts, others >>
       ELSE CatchApiError(r, "server")

\* fetch resolves with a response; !response.ok throws into catch (apiError).
FetchResolves(r, ok) ==
    /\ pc[r] = "fetching"
    /\ IF ok
       THEN /\ pc' = [pc EXCEPT ![r] = "parsing"]
            /\ UNCHANGED << task, nruns, i, isDemoMode, results, origin, localErr,
                            apiOutcome, delivered, errorsSet, fetches, nevents,
                            busyAttempts, others >>
       ELSE CatchApiError(r, "server")

\* Variant: the parsed response is handed over at once and again by the timer.
JsonResolvesDeliversToo(r, body) ==
    /\ pc[r] = "parsing"
    /\ results' = [results EXCEPT ![r] = body]
    /\ apiOutcome' = [apiOutcome EXCEPT ![r] = "ok"]
    /\ delivered' = [delivered EXCEPT ![r] = Append(@, body)]
    /\ i' = [i EXCEPT ![r] = TranscribeEnd]
    /\ uploadProgress' = TranscribeEnd
    /\ pc' = [pc EXCEPT ![r] = "closing"]
    /\ nevents' = [nevents EXCEPT ![r] = @ + 2]
    /\ UNCHANGED << isProcessing, processingStep, error, nruns, isDemoMode,
                    origin, localErr, errorsSet, fetches, busyAttempts, others >>

\* response.json() resolves.
JsonResolves(r, body) ==
    /\ pc[r] = "parsing"
    /\ results' = [results EXCEPT ![r] = body]
    /\ apiOutcome' = [apiOutcome EXCEPT ![r] = "ok"]
    /\ EnterClosing(r)
    /\ UNCHANGED << isProcessing, processingStep, error, nruns, isDemoMode,
                    origin, localErr, delivered, errorsSet, fetches, busyAttempts, others >>

\* Variant: a body that is not JSON fails the run.
JsonRejectsFails(r) ==
    /\ pc[r] = "parsing"
    /\ OuterCatch(r, [thrown |-> TRUE, isError |-> TRUE, message |-> "Unexpected token"])
    /\ apiOutcome' = [apiOutcome EXCEPT ![r] = "parse"]
    /\ UNCHANGED << nruns, i, isDemoMode, results, origin, localErr, delivered,
                    fetches, busyAttempts, others >>

\* response.json() rejects: the body is not JSON.
JsonRejects(r) ==
    /\ pc[r] = "parsing"
    /\ CatchApiError(r, "parse")

\* Variant: the fallback result is handed over before the closing band.
FallbackWaitDoneDelivers(r) ==
    /\ pc[r] = "fallbackWait"
    /\ delivered' = [delivered EXCEPT ![r] = Append(@, results[r])]
    /\ i' = [i EXCEPT ![r] = TranscribeEnd]
    /\ uploadProgress' = TranscribeEnd
    /\ pc' = [pc EXCEPT ![r] = "closing"]
    /\ nevents' = [nevents EXCEPT ![r] = @ + 2]
    /\ UNCHANGED << isProcessing, processingStep, error, nruns, isDemoMode,
                    results, origin, localErr, apiOutcome, errorsSet, fetches,
                    busyAttempts, others >>

\* Variant: after the pause the analysis call is tried a second time.
FallbackWaitDoneRetries(r) ==
    /\ pc[r] = "fallbackWait"
    /\ IF fetches[r] < 2
       THEN /\ fetches' = [fetches EXCEPT ![r] = @ + 1]
            /\ pc' = [pc EXCEPT ![r] = "fetching"]
            /\ UNCHANGED << uploadProgress, i, nevents >>
       ELSE /\ EnterClosing(r)
            /\ UNCHANGED fetches
    /\ UNCHANGED << isProcessing, processingStep, error, nruns, isDemoMode,
                    results, origin, localErr, apiOutcome, delivered, errorsSet,
                    busyAttempts, others >>

\* The 1500ms pause of the fallback branch ends.
FallbackWaitDone(r) ==
    /\ pc[r] = "fallbackWait"
    /\ EnterClosing(r)
    /\ UNCHANGED << isProcessing, processingStep, error, nruns, isDemoMode,
                    results, origin, localErr, apiOutcome, delivered, errorsSet, fetches,
                    busyAttempts, others >>

\* Variant: the closing loop starts over when it reaches its end.
ClosingTickLoops(r) ==
    /\ pc[r] = "closing"
    /\ IF i[r] + ClosingStep <= ClosingEnd
       THEN /\ i' = [i EXCEPT ![r] = @ + ClosingStep]
            /\ uploadProgress' = i[r] + ClosingStep
       ELSE /\ i' = [i EXCEPT ![r] = TranscribeEnd]
            /\ uploadProgress' = TranscribeEnd
    /\ UNCHANGED << isProcessing, processingStep, error, nruns, pc, isDemoMode,
                    results, origin, localErr, apiOutcome, delivered, errorsSet,
                    fetches, nevents, busyAttempts, others >>

\* for (let i = 60; i <= 100; i += 10) { setUploadProgress(i); await 100ms }
\* then setProcessingStep('Complete!') and setTimeout(..., 500).
ClosingTick(r) ==
    /\ pc[r] = "closing"
    /\ IF i[r] + ClosingStep <= ClosingEnd
       THEN /\ i' = [i EXCEPT ![r] = @ + ClosingStep]
            /\ uploadProgress' = i[r] + ClosingStep
            /\ UNCHANGED << processingStep, pc >>
       ELSE /\ processingStep' = "Complete!"
            /\ pc' = [pc EXCEPT ![r] = "finalPause"]
            /\ UNCHANGED << i, uploadProgress >>
    /\ nevents' = [nevents EXCEPT ![r] = @ + 1]
    /\ UNCHANGED << isProcessing, error, nruns, isDemoMode, results, origin, localErr,
                    apiOutcome, delivered, errorsSet, fetches, busyAttempts, others >>

\* HomePage.handleFileAnalyzed, the onFileAnalyzed prop of FileUpload:
\* navigate('/results', { state: { results } }).
HandleFileAnalyzed(analysisResults) ==
    /\ route' = "/results"
    /\ UNCHANGED isAuthenticated

\* Variant: the timer hands the result over and forgets the reset.
FinalTimerNoReset(r) ==
    /\ pc[r] = "finalPause"
    /\ delivered' = [delivered EXCEPT ![r] = Append(@, results[r])]
    /\ HandleFileAnalyzed(results[r])
    /\ pc' = [pc EXCEPT ![r] = "done"]
    /\ nevents' = [nevents EXCEPT ![r] = @ + 1]
    /\ UNCHANGED << task, nruns, i, isDemoMode, results, origin, localErr,
                    apiOutcome, errorsSet, fetches, busyAttempts,
                    headerVars, api, call >>

\* The 500ms timer fires: onFileAnalyzed(results) and the reset.
FinalTimer(r) ==
    /\ pc[r] = "finalPause"
    /\ delivered' = [delivered EXCEPT ![r] = Append(@, results[r])]
    /\ HandleFileAnalyzed(results[r])
    /\ isProcessing' = FALSE
    /\ uploadProgress' = 0
    /\ processingStep' = ""
    /\ pc' = [pc EXCEPT ![r] = "done"]
    /\ nevents' = [nevents EXCEPT ![r] = @ + 1]
    /\ UNCHANGED << error, nruns, i, isDemoMode, results, origin, localErr, apiOutcome,
                    errorsSet, fetches, busyAttempts, headerVars, api, call >>

Next ==
    \/ \E file \in Files, local \in LocalOutcomes : Drop(file, local)
    \/ TryDemo
    \/ \E msg \in DropzoneErrors : OnError(msg)
    \/ \E r \in Runs : UploadTick(r)
    \/ \E r \in Runs : TranscribeTick(r)
    \/ \E r \in Runs : DemoWaitDone(r)
    \/ \E r \in Runs : FetchRejects(r)
    \/ \E r \in Runs, ok \in BOOLEAN : FetchResolves(r, ok)
    \/ \E r \in Runs, body \in BackendBodies : JsonResolves(r, body)
    \/ \E r \in Runs : JsonRejects(r)
    \/ \E r \in Runs : FallbackWaitDone(r)
    \/ \E r \in Runs : ClosingTick(r)
    \/ \E r \in Runs : FinalTimer(r)

Spec == Init /\ [][Next]_vars

\* ------------------------------------------------------------ properties
Outcomes(r) == Len(delivered[r]) + errorsSet[r]

\* C1: while isProcessing is true, a further submission (a dropped file or a
\* demo request) starts no run and leaves uploadProgress, processingStep,
\* error and isProcessing, and the run in flight, exactly as they were.
C1_SingleFlightRejected ==
    [][ (isProcessing /\ busyAttempts' # busyAttempts)
            => (nruns' = nruns /\ UNCHANGED << task, runState >>) ]_vars

C1_Witness ==
    /\ busyAttempts > 0
    /\ isProcessing
    /\ nruns = 1
    /\ pc[1] = "fetching"

\* C2: in every reachable state at most one onDrop run has started and not
\* yet reached its terminal outcome.
C2_AtMostOneActive == Cardinality(ActiveRuns) <= 1

C2_Witness ==
    /\ pc[1] = "done"
    /\ Active(2)
    /\ busyAttempts > 0

\* C3: a run submitted with a valid file whose analysis call fails (network
\* error or non-success status) never sets the error, reaches progress 100
\* under 'Complete!' and ends by delivering one fallback result.
C3_GracefulDegrade ==
    \A r \in Runs :
        (origin[r] = "valid" /\ apiOutcome[r] \in {"network", "server"}) =>
            /\ errorsSet[r] = 0
            /\ pc[r] \in {"fallbackWait", "closing", "finalPause", "done"}
            /\ pc[r] = "finalPause" => (uploadProgress = 100 /\ error = Null)
            /\ pc[r] = "done" =>
                  /\ Len(delivered[r]) = 1
                  /\ delivered[r][1] \in FallbackResults
            /\ pc[r] # "done" => delivered[r] = <<>>

C3_Witness ==
    /\ origin[1] = "valid" /\ apiOutcome[1] = "network" /\ pc[1] = "done"
    /\ origin[2] = "valid" /\ apiOutcome[2] = "server" /\ pc[2] = "done"
    /\ Len(delivered[1]) = 1 /\ Len(delivered[2]) = 1

\* C4: a submitted file that fails the size/type validation immediately
\* yields a failed task with an error surfaced; no result is delivered for
\* it, no progress phase runs and the transport is never invoked.
C4_ValidationRejection ==
    \A r \in Runs :
        origin[r] = "rejected" =>
            /\ pc[r] = "done"
            /\ errorsSet[r] = 1
            /\ delivered[r] = <<>>
            /\ fetches[r] = 0

\* C5: a demo run never invokes the transport, never takes the error path
\* and delivers exactly sampleAnalysisResults.
C5_DemoMode ==
    \A r \in Runs :
        (origin[r] = "demo") =>
            /\ isDemoMode[r]
            /\ fetches[r] = 0
            /\ errorsSet[r] = 0
            /\ apiOutcome[r] = "none"
            /\ pc[r] = "done" => delivered[r] = << SampleAnalysisResults >>
            /\ pc[r] # "done" => delivered[r] = <<>>

C5_Witness ==
    /\ origin[1] = "demo" /\ pc[1] = "done"
    /\ origin[2] = "demo" /\ pc[2] = "done"
    /\ delivered[1] = delivered[2]
    /\ delivered[1] = << SampleAnalysisResults >>

Delivers(r) == Len(delivered'[r]) > Len(delivered[r])

\* C6: from the accepted submission until the outcome is delivered the
\* uploadProgress values never decrease, and a result is delivered only
\* from a state in which uploadProgress is exactly 100.
C6_ProgressMonotone ==
    [][ /\ (isProcessing /\ isProcessing') => uploadProgress' >= uploadProgress
        /\ (~isProcessing /\ isProcessing') => uploadProgress' >= uploadProgress
        /\ \A r \in Runs : Delivers(r) => uploadProgress = 100 ]_vars

C6_Witness ==
    /\ pc[1] = "done" /\ Len(delivered[1]) = 1
    /\ pc[2] = "finalPause" /\ uploadProgress = 100

\* C7: a finished run has reported exactly one terminal outcome, a delivered
\* result or a surfaced error, and no run ever reports more than one.
C7_ExactlyOneOutcome ==
    \A r \in Runs :
        /\ Outcomes(r) <= 1
        /\ pc[r] = "done" => Outcomes(r) = 1
        /\ pc[r] # "done" => Outcomes(r) = 0

C7_Witness ==
    /\ pc[1] = "done" /\ Len(delivered[1]) = 1 /\ errorsSet[1] = 0
    /\ pc[2] = "done" /\ delivered[2] = <<>> /\ errorsSet[2] = 1

\* C8: once a run has reported its terminal outcome it emits nothing more:
\* no progress tick, no step label change, no further delivery or error.
C8_OutcomeIsLast ==
    [][ \A r \in Runs :
            Outcomes(r) > 0 =>
                /\ nevents'[r] = nevents[r]
                /\ delivered'[r] = delivered[r]
                /\ errorsSet'[r] = errorsSet[r]
                /\ pc'[r] = "done" ]_vars

C8_Witness ==
    /\ Outcomes(1) = 1
    /\ pc[1] = "done"
    /\ pc[2] = "closing"
    /\ nevents[2] > 0

\* C9: when building the FormData of a run throws, the error field takes the
\* message of the thrown Error ('Upload failed' for a non-Error value), no
\* result is delivered for the run and the task is reset to idle.
C9_LocalFailure ==
    [][ \A r \in Runs :
            /\ (pc[r] # "done" /\ pc'[r] = "done" /\ localErr'[r].thrown) =>
                  /\ error' = IF localErr'[r].isError
                              THEN localErr'[r].message ELSE "Upload failed"
                  /\ isProcessing' = FALSE
                  /\ uploadProgress' = 0
                  /\ processingStep' = ""
                  /\ errorsSet'[r] = 1
            /\ localErr'[r].thrown => (pc'[r] = "done" /\ delivered'[r] = <<>>) ]_vars

C9_Witness ==
    /\ localErr[1].thrown /\ localErr[1].isError
    /\ pc[1] = "done"
    /\ error = "FormData failed"
    /\ ~isProcessing

\* C10: a result is delivered only from a state with uploadProgress 100 and
\* processingStep 'Complete!', and the delivering step leaves the task idle
\* (isProcessing false, uploadProgress 0, processingStep empty), in which a
\* new submission is taken.
C10_DeliveryThenReset ==
    [][ \A r \in Runs :
            Delivers(r) =>
                /\ uploadProgress = 100
                /\ processingStep = "Complete!"
                /\ isProcessing' = FALSE
                /\ uploadProgress' = 0
                /\ processingStep' = ""
                /\ ~ShowsProcessingView' /\ ~DropzoneDisabled' ]_vars

C10_Witness ==
    /\ Len(delivered[1]) = 1
    /\ pc[1] = "done"
    /\ nruns = 2
    /\ pc[2] = "uploading"

\* The fields of AnalysisResults, the shape the consumers of a result read.
CanonicalFields == {"transcript", "summary", "action_items", "key_decisions", "processing_time"}

Canonical(res) ==
    /\ DOMAIN res = CanonicalFields
    /\ \A f \in CanonicalFields : res[f] # Undefined

\* C11: every result a run delivers, from the backend, the random fallback
\* or the demo sample, has the canonical fields, all of them defined.
C11_CanonicalDelivered ==
    \A r \in Runs : \A k \in DOMAIN delivered[r] : Canonical(delivered[r][k])

\* ------------------------------------------------------- pure functions
\* types/analysis.ts: the second generateRandomResults, contents shortened.
variationsTypes ==
    [ transcript    |-> << Str("t0 retrospective"), Str("t1 client"),
                           Str("t2 roadmap"), Str("t3 security") >>,
      summary       |-> << Str("s0 retrospective"), Str("s1 client"),
                           Str("s2 roadmap"), Str("s3 security") >>,
      action_items  |-> << Arr(<< Str("a0 tools"), Str("a0 standups") >>),
                           Arr(<< Str("a1 proposal"), Str("a1 demo") >>),
                           Arr(<< Str("a2 roadmap"), Str("a2 resources") >>),
                           Arr(<< Str("a3 patch"), Str("a3 protocols") >>) >>,
      key_decisions |-> << Arr(<< Str("d0 tool") >>), Arr(<< Str("d1 accept") >>),
                           Arr(<< Str("d2 mobile") >>), Arr(<< Str("d3 zero trust") >>) >> ]

GenerateRandomResultsTypes(k1, k2) ==
    LET randomIndex == RandomIndex(k1, Len(variationsTypes.transcript))
    IN [ transcript      |-> At(variationsTypes.transcript, randomIndex),
         summary         |-> At(variationsTypes.summary, randomIndex),
         action_items    |-> At(variationsTypes.action_items, randomIndex),
         key_decisions   |-> At(variationsTypes.key_decisions, randomIndex),
         processing_time |-> Num(RandomTime(k2)) ]

IsArr(v) == "arr" \in DOMAIN v

\* The value that stands for a TypeError thrown while evaluating.
TypeError == [typeError |-> TRUE]

\* Variant: `.map` without the optional chaining.
OptMapNoChain(v, field) ==
    IF IsArr(v) THEN Arr([k \in DOMAIN v.arr |-> v.arr[k][field]]) ELSE TypeError

\* v?.map(x => x[field]): undefined stays undefined, a value that is not an
\* array has no map.
OptMap(v, field) ==
    IF v = Undefined THEN Undefined
    ELSE IF IsArr(v) THEN Arr([k \in DOMAIN v.arr |-> v.arr[k][field]])
    ELSE TypeError

\* What join renders one element as: undefined becomes the empty string.
ElementText(v) == IF v = Undefined THEN "" ELSE v.str

\* Variant: join without a separator.
JoinNoSeparator(texts, sep) ==
    LET RECURSIVE J(_)
        J(k) == IF k = 0 THEN "" ELSE J(k - 1) \o ElementText(texts[k])
    IN J(Len(texts))

\* Array.prototype.join(sep)
Join(texts, sep) ==
    LET RECURSIVE J(_)
        J(k) == IF k = 0 THEN ""
                ELSE IF k = 1 THEN ElementText(texts[1])
                ELSE J(k - 1) \o sep \o ElementText(texts[k])
    IN J(Len(texts))

\* transcript?.map(segment => segment.text).join(' ') || ''
Flatten(transcript) ==
    LET texts == OptMap(transcript, "text")
    IN IF texts = TypeError THEN TypeError
       ELSE IF texts = Undefined THEN Str("")
       ELSE OrElse(Str(Join(texts.arr, " ")), Str(""))

\* transformBackendResponse: what it returns, or that it raises.
TransformBackendResponse(backendData) ==
    LET transcription == Flatten(backendData.transcript)
        items == OptMap(backendData.action_items, "text")
        decisions == OptMap(backendData.key_decisions, "decision")
    IN IF TypeError \in {transcription, items, decisions}
       THEN [raised |-> "TypeError"]
       ELSE [returned |->
               [ transcription   |-> transcription,
                 summary         |-> OrElse(backendData.summary, Str("")),
                 action_items    |-> OrElse(items, Arr(<<>>)),
                 decision_points |-> OrElse(decisions, Arr(<<>>)),
                 processing_time |-> OrElse(backendData.processing_time, Num(0)) ]]

\* ResultsSection: transcriptionText of the result it is given.
TranscriptionText(res) == Flatten(res.transcript)

\* Raw backend responses: every field absent or of its declared type, and a
\* transcript that is not an array.
SegTexts == {"", "a", "b c"}
SegSeqs == UNION { [1 .. n -> { Segment(t) : t \in SegTexts }] : n \in 0 .. MaxSegs }

RawResponses ==
    [ transcript      : {Undefined, Str("not an array")} \cup { Arr(ss) : ss \in SegSeqs },
      summary         : {Undefined, Str(""), Str("raw summary")},
      action_items    : {Undefined, Arr(<<>>), Arr(<< Item("i1"), Item("i2") >>)},
      key_decisions   : {Undefined, Arr(<<>>), Arr(<< Decision("d1") >>)},
      processing_time : {Undefined, Num(0), Num(12)} ]

fnOthers == << uploadVars, headerVars, api, homeVars >>

TransformCall(raw) ==
    /\ call = NoCall
    /\ call' = [fn |-> "transformBackendResponse", arg |-> raw,
                out |-> TransformBackendResponse(raw)]
    /\ UNCHANGED fnOthers

TranscriptionTextCall(ss) ==
    /\ call = NoCall
    /\ call' = [fn |-> "transcriptionText", arg |-> [transcript |-> Arr(ss)],
                out |-> TranscriptionText([transcript |-> Arr(ss)])]
    /\ UNCHANGED fnOthers

RandomCall(k1, k2) ==
    /\ call = NoCall
    /\ call' = [fn |-> "generateRandomResults", arg |-> << k1, k2 >>,
                out |-> GenerateRandomResults(k1, k2)]
    /\ UNCHANGED fnOthers

RandomTypesCall(k1, k2) ==
    /\ call = NoCall
    /\ call' = [fn |-> "generateRandomResultsTypes", arg |-> << k1, k2 >>,
                out |-> GenerateRandomResultsTypes(k1, k2)]
    /\ UNCHANGED fnOthers

\* Base addresses a client can be constructed with: the defaults of the
\* three clients, the production address, one on a host named api, and one
\* without a path.
BaseURLs ==
    { "http://localhost:8000/api",
      "http://localhost:8000/api/v1",
      "https://manthan-ai-69lq.onrender.com/api",
      "https://api.example.com/api",
      "http://localhost:8000" }

\* What healthCheck passes to replace: '/api' in lib/api.ts and in the
\* Auth0 client, '/api/v1' in the older client.
HealthPatterns == { "/api", "/api/v1" }

\* The positions at which pattern occurs in s.
Occurrences(s, pattern) ==
    { k \in 1 .. Len(s) :
         /\ k + Len(pattern) - 1 <= Len(s)
         /\ SubSeq(s, k, k + Len(pattern) - 1) = pattern }

Min(S) == CHOOSE k \in S : \A m \in S : k <= m

\* String.prototype.replace(pattern, '') with a string pattern: the first
\* occurrence is removed, wherever it is.
Replace(s, pattern) ==
    LET occ == Occurrences(s, pattern)
    IN IF occ = {} THEN s
       ELSE SubSeq(s, 1, Min(occ) - 1) \o SubSeq(s, Min(occ) + Len(pattern), Len(s))

\* `${this.baseURL.replace(pattern, '')}/health`
HealthURL(baseURL, pattern) == Replace(baseURL, pattern) \o "/health"

HealthURLCall(baseURL, pattern) ==
    /\ call = NoCall
    /\ call' = [fn |-> "healthURL", arg |-> << baseURL, pattern >>,
                out |-> HealthURL(baseURL, pattern)]
    /\ UNCHANGED fnOthers

FnNext ==
    \/ \E raw \in RawResponses : TransformCall(raw)
    \/ \E ss \in SegSeqs : TranscriptionTextCall(ss)
    \/ \E k1 \in RandomDraws, k2 \in RandomDraws : RandomCall(k1, k2)
    \/ \E k1 \in RandomDraws, k2 \in RandomDraws : RandomTypesCall(k1, k2)
    \/ \E baseURL \in BaseURLs, pattern \in HealthPatterns : HealthURLCall(baseURL, pattern)

SpecFn == Init /\ [][FnNext]_vars

\* Every field of a raw response is absent or of its declared type.
WellTyped(raw) == raw.transcript = Undefined \/ IsArr(raw.transcript)

\* C12: for every raw response with any subset of transcript, summary,
\* action_items, key_decisions and processing_time absent,
\* transformBackendResponse returns, every field of the result is defined,
\* and an absent field comes out as '' / [] / 0.
C12_NormalizationTotal ==
    (call.fn = "transformBackendResponse" /\ WellTyped(call.arg)) =>
        /\ "returned" \in DOMAIN call.out
        /\ LET raw == call.arg
               out == call.out.returned
           IN /\ \A f \in DOMAIN out : out[f] # Undefined
              /\ raw.transcript = Undefined => out.transcription = Str("")
              /\ raw.summary = Undefined => out.summary = Str("")
              /\ raw.action_items = Undefined => out.action_items = Arr(<<>>)
              /\ raw.key_decisions = Undefined => out.decision_points = Arr(<<>>)
              /\ raw.processing_time = Undefined => out.processing_time = Num(0)

C12_Witness ==
    /\ call.fn = "transformBackendResponse"
    /\ call.arg.transcript = Undefined
    /\ call.arg.summary = Undefined
    /\ call.arg.action_items = Undefined
    /\ call.arg.key_decisions = Undefined
    /\ call.arg.processing_time = Undefined
    /\ "returned" \in DOMAIN call.out

\* Where the k-th of the texts starts in their join, counted from 0.
Offset(texts, k) ==
    LET RECURSIVE O(_)
        O(j) == IF j = 1 THEN 0 ELSE O(j - 1) + Len(texts[j - 1]) + 1
    IN O(k)

\* s is the texts in their order with one space between neighbours.
TextsInOrder(texts, s) ==
    LET n == Len(texts) IN
    /\ Len(s) = IF n = 0 THEN 0 ELSE Offset(texts, n) + Len(texts[n])
    /\ \A k \in 1 .. n :
          /\ SubSeq(s, Offset(texts, k) + 1, Offset(texts, k) + Len(texts[k])) = texts[k]
          /\ k < n => SubSeq(s, Offset(texts, k) + Len(texts[k]) + 1,
                                Offset(texts, k) + Len(texts[k]) + 1) = " "

SegmentTexts(transcript) == [k \in DOMAIN transcript.arr |-> transcript.arr[k].text.str]

\* C13: the flattened transcript is the segment texts in their original
\* order separated by one space, nothing dropped, repeated or reordered,
\* in transformBackendResponse and in ResultsSection alike.
C13_FlattenInOrder ==
    /\ (call.fn = "transformBackendResponse" /\ IsArr(call.arg.transcript)) =>
          /\ "returned" \in DOMAIN call.out
          /\ TextsInOrder(SegmentTexts(call.arg.transcript),
                          call.out.returned.transcription.str)
    /\ call.fn = "transcriptionText" =>
          TextsInOrder(SegmentTexts(call.arg.transcript), call.out.str)

C13_Witness ==
    /\ call.fn = "transformBackendResponse"
    /\ call.arg.transcript = Arr(<< Segment("b c"), Segment("a") >>)
    /\ call.out.returned.transcription = Str("b c a")

VariantFields == {"transcript", "summary", "action_items", "key_decisions"}

\* Every variant field of out is the idx-th entry of its list in v.
SameVariant(out, v) ==
    \E idx \in 0 .. 3 :
        \A f \in VariantFields : out[f] # Undefined /\ out[f] = At(v[f], idx)

\* C14: for every random draw both generateRandomResults take transcript,
\* summary, action_items and key_decisions from the same variant index and
\* leave no field undefined.
C14_FallbackConsistent ==
    /\ call.fn = "generateRandomResults" =>
          /\ SameVariant(call.out, variations)
          /\ call.out.processing_time # Undefined
    /\ call.fn = "generateRandomResultsTypes" =>
          /\ SameVariant(call.out, variationsTypes)
          /\ call.out.processing_time # Undefined

C14_Witness ==
    /\ call.fn = "generateRandomResultsTypes"
    /\ call.arg = << 3, 1 >>
    /\ call.out.summary = Str("s3 security")
    /\ call.out.action_items = Arr(<< Str("a3 patch"), Str("a3 protocols") >>)

\* ------------------------------------------------------------ ApiClient
Methods == {"analyzeFile", "getSupportedFormats", "healthCheck"}

Statuses == {200, 201, 404, 500}

\* response.ok
Ok(status) == status >= 200 /\ status <= 299

\* A body that is not JSON, and the JSON value null.
NotJson == [notJson |-> TRUE]
JsonNull == [null |-> TRUE]

\* Bodies of a failure response: any JSON, with or without a detail string.
ErrorBodies ==
    { NotJson, JsonNull,
      [detail |-> Str("File too large")],
      [detail |-> Str("")],
      [message |-> Str("no detail here")] }

\* Bodies of a success response of /analyze.
AnalyzeBodies ==
    { NotJson,
      [ transcript      |-> Arr(<< Segment("a"), Segment("b c") >>),
        summary         |-> Str("raw summary"),
        action_items    |-> Arr(<< Item("i1") >>),
        key_decisions   |-> Arr(<< Decision("d1") >>),
        processing_time |-> Num(12) ],
      [ transcript      |-> Undefined,
        summary         |-> Undefined,
        action_items    |-> Undefined,
        key_decisions   |-> Arr(<<>>),
        processing_time |-> Num(0) ] }

\* Bodies of a success response of /formats and /health.
InfoBodies == { NotJson, [status |-> Str("healthy")] }

BodiesOf(method, status) ==
    IF ~Ok(status) THEN ErrorBodies
    ELSE IF method = "analyzeFile" THEN AnalyzeBodies
    ELSE InfoBodies

Tokens == { "tok1" }

apiOthers == << uploadVars, headerVars, call, homeVars >>

Raised(message) == [raised |-> Str(message)]
Returned(value) == [returned |-> value]

\* `HTTP error! status: ${response.status}`
HttpError(status) == "HTTP error! status: " \o ToString(status)

\* The request leaves with the headers built so far.
SendRequest(a, auth) == [a EXCEPT !.sent = TRUE, !.auth = auth, !.pc = "fetch"]

\* A method is called on the client: up to the first await.  Without an
\* accessor getAuthHeaders returns {} and the request is sent.
ApiStart(method) ==
    /\ api.pc \in {"idle", "returned", "raised"}
    /\ api.ncalls < MaxCalls
    /\ LET a == [ApiIdle(api.client, api.ncalls + 1) EXCEPT !.method = method]
       IN api' = IF api.client.hasAccessor
                 THEN [a EXCEPT !.pc = "token", !.asked = 1]
                 ELSE SendRequest(a, Undefined)
    /\ UNCHANGED apiOthers

\* getAccessToken() resolves: headers['Authorization'] = `Bearer ${token}`
ApiTokenResolves(tok) ==
    /\ api.pc = "token"
    /\ api' = SendRequest([api EXCEPT !.token = "ok"], Str("Bearer " \o tok))
    /\ UNCHANGED apiOthers

\* Variant: a failing accessor aborts the call.
ApiTokenRejectsAborts ==
    /\ api.pc = "token"
    /\ api' = [api EXCEPT !.token = "failed", !.pc = "raised",
                          !.outcome = Raised("Login required")]
    /\ UNCHANGED apiOthers

\* getAccessToken() rejects: console.warn, the headers stay empty.
ApiTokenRejects ==
    /\ api.pc = "token"
    /\ api' = SendRequest([api EXCEPT !.token = "failed"], Undefined)
    /\ UNCHANGED apiOthers

\* Variant: a request that cannot be completed yields stand-in data.
ApiFetchFailsFallback ==
    /\ api.pc = "fetch"
    /\ api' = [api EXCEPT !.pc = "returned",
                          !.outcome = Returned([status |-> Str("healthy")])]
    /\ UNCHANGED apiOthers

\* fetch rejects: the request cannot be completed; nothing catches it.
ApiFetchFails ==
    /\ api.pc = "fetch"
    /\ api' = [api EXCEPT !.pc = "raised", !.outcome = Raised("Failed to fetch")]
    /\ UNCHANGED apiOthers

\* fetch resolves with a response.  analyzeFile reads the body of a failure
\* response; the other two throw on !response.ok at once.
ApiFetchResponds(status, body) ==
    /\ api.pc = "fetch"
    /\ LET a == [api EXCEPT !.status = status, !.body = body]
       IN api' = IF Ok(status) THEN [a EXCEPT !.pc = "body"]
                 ELSE IF api.method = "analyzeFile" THEN [a EXCEPT !.pc = "errorBody"]
                 ELSE [a EXCEPT !.pc = "raised", !.outcome = Raised(HttpError(status))]
    /\ UNCHANGED apiOthers

\* await response.json().catch(() => ({}))
ErrorData(body) == IF body = NotJson THEN [empty |-> TRUE] ELSE body

\* errorData.detail || `HTTP error! status: ${response.status}`
ErrorOf(errorData, status) ==
    IF errorData = JsonNull
    THEN Raised("TypeError: Cannot read properties of null")
    ELSE LET detail == IF "detail" \in DOMAIN errorData
                       THEN errorData.detail ELSE Undefined
         IN [raised |-> OrElse(detail, Str(HttpError(status)))]

\* The body of a failure response has been read: throw new Error(...)
ApiErrorBodyRead ==
    /\ api.pc = "errorBody"
    /\ api' = [api EXCEPT !.pc = "raised",
                          !.outcome = ErrorOf(ErrorData(api.body), api.status)]
    /\ UNCHANGED apiOthers

\* await response.json() of a success response, and the return.
ApiBodyRead ==
    /\ api.pc = "body"
    /\ LET out == IF api.body = NotJson THEN Raised("SyntaxError")
                  ELSE IF api.method = "analyzeFile" /\ api.client.transforms
                       THEN TransformBackendResponse(api.body)
                       ELSE Returned(api.body)
       IN api' = [api EXCEPT !.outcome = out,
                             !.pc = IF "returned" \in DOMAIN out
                                    THEN "returned" ELSE "raised"]
    /\ UNCHANGED apiOthers

ApiNext ==
    \/ \E method \in Methods : ApiStart(method)
    \/ \E tok \in Tokens : ApiTokenResolves(tok)
    \/ ApiTokenRejects
    \/ ApiFetchFails
    \/ \E status \in Statuses :
          \E body \in BodiesOf(api.method, status) : ApiFetchResponds(status, body)
    \/ ApiErrorBodyRead
    \/ ApiBodyRead

InitApi ==
    /\ UploadInit
    /\ HeaderInit
    /\ ApiInit
    /\ FnInit
    /\ SignedInInit

SpecApi == InitApi /\ [][ApiNext]_vars

ApiDone == api.pc \in {"returned", "raised"}

\* The request of the call could not be completed.
ApiNoResponse == ApiDone /\ api.status = 0

\* The body parses and has a detail.
HasDetail(body) ==
    /\ body \notin {NotJson, JsonNull}
    /\ "detail" \in DOMAIN body
    /\ body.detail # Str("")

\* C15: analyzeFile returns only for a success status; for a non-success
\* status it raises, with the detail of the error body when the body parses
\* and has one and the bare status code otherwise (also for a body that is
\* not JSON); when the request cannot be completed it raises.
C15_AnalyzeErrors ==
    (api.method = "analyzeFile" /\ ApiDone) =>
        /\ api.pc = "returned" => Ok(api.status)
        /\ ApiNoResponse => api.pc = "raised"
        /\ (api.status # 0 /\ ~Ok(api.status)) =>
              /\ api.pc = "raised"
              /\ api.outcome = Raised(IF HasDetail(api.body)
                                      THEN api.body.detail.str
                                      ELSE HttpError(api.status))

\* C16: a client with a credential accessor asks it once before every
\* request and sends the token as a bearer header; when the accessor fails
\* the request is sent without Authorization and the call returns exactly
\* when the response is a success with a JSON body.
C16_AuthDegrades ==
    /\ api.client.hasAccessor =>
          /\ api.method # "none" => api.asked = 1
          /\ api.sent => api.token \in {"ok", "failed"}
          /\ api.token = "ok" => (api.sent /\ api.auth = Str("Bearer tok1"))
          /\ api.token = "failed" =>
                /\ api.sent
                /\ api.auth = Undefined
                /\ ApiDone => (api.pc = "returned" <=> (Ok(api.status) /\ api.body # NotJson))
    /\ ~api.client.hasAccessor => (api.asked = 0 /\ api.auth = Undefined)

C16_Witness ==
    /\ api.client.hasAccessor
    /\ api.method = "analyzeFile"
    /\ api.token = "failed"
    /\ api.pc = "returned"

\* C17: healthCheck and getSupportedFormats return only the parsed body of
\* a success response; a non-success status and a request that cannot be
\* completed are raised to the caller.
C17_NoFallback ==
    (api.method \in {"getSupportedFormats", "healthCheck"} /\ ApiDone) =>
        /\ api.pc = "returned" => (Ok(api.status) /\ api.outcome = Returned(api.body))
        /\ ApiNoResponse => api.pc = "raised"
        /\ (api.status # 0 /\ ~Ok(api.status)) => api.outcome = Raised(HttpError(api.status))

C17_Witness ==
    /\ api.method = "healthCheck"
    /\ api.pc = "raised"
    /\ api.status = 500
    /\ api.ncalls = 2

\* The last run ended in the catch block of onDrop.
Failed == nruns >= 1 /\ pc[nruns] = "done" /\ errorsSet[nruns] = 1

\* C18: error is present only when the task has failed; while the task is
\* idle, in flight or complete, error is empty.
C18_ErrorOnlyWhenFailed == error # Null => Failed

\* Run r calls setUploadProgress from one of its three loops in this step,
\* and has called it before.
Tick(r) ==
    \/ i'[r] # i[r]
    \/ pc[r] = "uploading" /\ pc'[r] = "transcribing"
    \/ pc[r] # "closing" /\ pc'[r] = "closing"

\* C20: every tick of a run carries a value strictly greater than the
\* previous tick of that run, also across the boundaries at 30 and 60.
C20_TicksStrictlyIncrease ==
    [][ \A r \in Runs : Tick(r) => uploadProgress' > uploadProgress ]_vars

\* C20 (amended): the ticks of a run never decrease and strictly increase
\* inside each loop; the only repeated values are 30 and 60, each emitted
\* once by the loop that ends there and once by the loop that starts there.
C20_TicksOrdered ==
    [][ \A r \in Runs : Tick(r) =>
           /\ uploadProgress' >= uploadProgress
           /\ uploadProgress' = uploadProgress =>
                 /\ pc'[r] # pc[r]
                 /\ uploadProgress \in {UploadEnd, TranscribeEnd} ]_vars

C20_Witness ==
    /\ pc[1] = "closing"
    /\ i[1] = TranscribeEnd
    /\ uploadProgress = TranscribeEnd
    /\ nevents[1] > 0

\* ------------------------------------------------- the Header's liveness poll
headerOthers == << uploadVars, api, call, homeVars >>

\* checkApiHealth() up to its await: the fetch of /health is in flight.
CheckApiHealth(p) ==
    /\ probe' = [probe EXCEPT ![p] = "pending"]
    /\ nprobes' = p
    /\ UNCHANGED << apiStatus, headerOthers >>

\* The effect runs once after the first render.
Mount ==
    /\ nprobes = 0
    /\ CheckApiHealth(1)

\* setInterval(checkApiHealth, 30000) fires; an earlier probe may still be
\* waiting for its response.
IntervalFires ==
    /\ nprobes >= 1
    /\ nprobes < MaxProbes
    /\ CheckApiHealth(nprobes + 1)

\* setApiStatus(response.ok ? 'online' : 'offline')
ProbeResolves(p, ok) ==
    /\ probe[p] = "pending"
    /\ apiStatus' = IF ok THEN "online" ELSE "offline"
    /\ probe' = [probe EXCEPT ![p] = IF ok THEN "online" ELSE "offline"]
    /\ UNCHANGED << nprobes, headerOthers >>

\* Variant: a failed probe also reports through the upload's error.
ProbeRejectsSetsError(p) ==
    /\ probe[p] = "pending"
    /\ apiStatus' = "offline"
    /\ error' = "API offline"
    /\ probe' = [probe EXCEPT ![p] = "rejected"]
    /\ UNCHANGED << isProcessing, uploadProgress, processingStep, nruns,
                    runState, busyAttempts, nprobes, api, call, homeVars >>

\* catch { setApiStatus('offline') }
ProbeRejects(p) ==
    /\ probe[p] = "pending"
    /\ apiStatus' = "offline"
    /\ probe' = [probe EXCEPT ![p] = "rejected"]
    /\ UNCHANGED << nprobes, headerOthers >>

\* A step of the FileUpload component rendered on the same page.
UploadStepOnPage == Next /\ nruns' <= MaxPageRuns

PageNext ==
    \/ UploadStepOnPage
    \/ Mount
    \/ IntervalFires
    \/ \E p \in Probes, ok \in BOOLEAN : ProbeResolves(p, ok)
    \/ \E p \in Probes : ProbeRejects(p)

SpecPage == Init /\ [][PageNext]_vars

\* C19: starting or completing a liveness probe never changes isProcessing,
\* uploadProgress, processingStep, error or the delivered result, and no
\* step of an upload run changes apiStatus, whatever the interleaving.
C19_SeparateTasks ==
    [][ /\ (probe' # probe) => UNCHANGED << task, delivered >>
        /\ (uploadVars' # uploadVars) => apiStatus' = apiStatus ]_vars

\* A probe settled and another started while a run was in flight.
C19_Witness ==
    /\ isProcessing
    /\ uploadProgress = TranscribeEnd
    /\ probe[1] = "rejected"
    /\ probe[2] = "pending"
    /\ apiStatus = "offline"

\* Run r is between 'Analyzing...' and the closing loop: in the demo pause,
\* in the fetch, in response.json() or in the fallback pause.
Waiting(r) == pc[r] \in {"demoWait", "fetching", "parsing", "fallbackWait"}

\* let results has been assigned.
ResultReady(r) == results[r] # Undefined

PhaseBands ==
    /\ processingStep = "Uploading..." =>
          (uploadProgress >= 0 /\ uploadProgress <= UploadEnd)
    /\ processingStep = "Transcribing..." =>
          (uploadProgress >= UploadEnd /\ uploadProgress <= TranscribeEnd)
    /\ \A r \in Runs : Waiting(r) =>
          (processingStep = "Analyzing..." /\ uploadProgress = TranscribeEnd)
    /\ uploadProgress > TranscribeEnd =>
          \E r \in Runs : Active(r) /\ ResultReady(r)

\* C21: label and progress agree with the phase bands: 'Uploading...' with
\* 0..30, 'Transcribing...' with 30..60, waiting for the result under
\* 'Analyzing...' at 60 with no tick emitted, and values above 60 only once
\* the result is ready.
C21_PhaseBands ==
    /\ []PhaseBands
    /\ [][ \A r \in Runs : (Waiting(r) /\ pc'[r] # "closing") =>
              (uploadProgress' = uploadProgress /\ ~Tick(r)) ]_vars

C21_Witness ==
    /\ pc[1] = "done"
    /\ pc[2] = "parsing"
    /\ processingStep = "Analyzing..."
    /\ uploadProgress = TranscribeEnd

\* fetch has settled for run r in this step: it resolved with a response or
\* it rejected.
TransportReturns(r) ==
    /\ pc[r] = "fetching"
    /\ \/ pc'[r] = "parsing"
       \/ apiOutcome'[r] \in {"network", "server"}

\* C22: nothing but the return of the transport call moves a run that waits
\* for it: until fetch settles the task stays at 'Analyzing...' with
\* progress 60 and isProcessing true, no result or error is delivered, and
\* every further submission is refused, however long that takes.
C22_HungRequestStalls ==
    /\ [](\A r \in Runs : pc[r] = "fetching" =>
              /\ isProcessing
              /\ processingStep = "Analyzing..."
              /\ uploadProgress = TranscribeEnd
              /\ Outcomes(r) = 0)
    /\ [][ \A r \in Runs : pc[r] = "fetching" =>
              /\ pc'[r] = "fetching" =>
                    (nruns' = nruns /\ UNCHANGED << task, runState >>)
              /\ pc'[r] # "fetching" => TransportReturns(r) ]_vars

\* A submission was refused while the transport call had not returned.
C22_Witness ==
    /\ pc[1] = "fetching"
    /\ busyAttempts = MaxBusyAttempts

\* ---------------------------------------------------------- timers are fair
\* A timer that has been set fires: the awaits on setTimeout inside onDrop
\* and the 500ms timer that hands the result over.  Nothing makes fetch or
\* response.json() settle.
TimersFair ==
    \A r \in Runs :
        /\ WF_vars(UploadTick(r))
        /\ WF_vars(TranscribeTick(r))
        /\ WF_vars(DemoWaitDone(r))
        /\ WF_vars(FallbackWaitDone(r))
        /\ WF_vars(ClosingTick(r))
        /\ WF_vars(FinalTimer(r))

SpecLive == Init /\ [][Next]_vars /\ TimersFair

\* The analysis call of run r has not returned.
CallPending(r) == pc[r] \in {"fetching", "parsing"}

\* Run r has reported its outcome and the component takes submissions again.
Settled(r) ==
    /\ pc[r] = "done"
    /\ Outcomes(r) = 1
    /\ ~isProcessing
    /\ ~ShowsProcessingView
    /\ ~DropzoneDisabled

\* C23: with fair timers, every run that has started, a demo run or a run
\* whose analysis call returns or fails, reaches its terminal outcome, and
\* then isProcessing is false and the component accepts a submission again.
C23_RunsTerminate ==
    \A r \in Runs :
        [](Active(r) => (<>Settled(r) \/ <>[]CallPending(r)))

\* A second run was accepted after the first one had settled.
C23_Witness ==
    /\ pc[1] = "done"
    /\ Outcomes(1) = 1
    /\ apiOutcome[1] = "ok"
    /\ Active(2)
    /\ ~isDemoMode[2]
    /\ pc[2] = "closing"

\* ------------------------------------------------------------- the home page
homeOthers == << headerVars, api, call >>

\* handleSignIn: setIsAuthenticated(true); HomePage now renders a new
\* FileUpload, whose error starts as null.  A sign-in while a run started
\* before the last sign-out is still going is not followed.
HandleSignIn ==
    /\ route = "/"
    /\ ~isAuthenticated
    /\ ActiveRuns = {}
    /\ isAuthenticated' = TRUE
    /\ error' = Null
    /\ UNCHANGED << route, isProcessing, uploadProgress, processingStep, nruns,
                    runState, busyAttempts, homeOthers >>

\* handleSignOut: setIsAuthenticated(false); navigate('/').  FileUpload is
\* no longer rendered; an onDrop that is suspended at an await goes on.
HandleSignOut ==
    /\ Rendered
    /\ isAuthenticated' = FALSE
    /\ route' = "/"
    /\ UNCHANGED << uploadVars, homeOthers >>

\* ResultsPage.handleNewUpload: navigate('/') mounts a new HomePage.
HandleNewUpload ==
    /\ route = "/results"
    /\ route' = "/"
    /\ isAuthenticated' = FALSE
    /\ UNCHANGED << uploadVars, homeOthers >>

\* The step is taken by the user on the upload widgets or by the dropzone.
UserStep ==
    \/ nruns' # nruns
    \/ busyAttempts' # busyAttempts
    \/ error' # error

\* A step of FileUpload inside HomePage: its widgets exist only while it is
\* rendered, its timers and promises go on regardless.
UploadStepAtHome ==
    /\ Next
    /\ nruns' <= MaxPageRuns
    /\ UserStep => Rendered

HomeInit ==
    /\ UploadInit
    /\ HeaderInit
    /\ api = ApiIdle([transforms |-> TRUE, hasAccessor |-> FALSE], 0)
    /\ FnInit
    /\ isAuthenticated = FALSE
    /\ route = "/"

HomeNext ==
    \/ HandleSignIn
    \/ HandleSignOut
    \/ HandleNewUpload
    \/ UploadStepAtHome

SpecHome == HomeInit /\ [][HomeNext]_vars

\* C24: the location becomes the results page only while the user is
\* signed in, also when the sign-out happened during an upload run.
C24_NoResultsAfterSignOut ==
    [][ (route' = "/results" /\ route # "/results") => isAuthenticated ]_vars

\* C25: a run whose success response has a body that is not JSON ends like
\* a run whose request failed: with a result of generateRandomResults
\* delivered, no error set by the run and the task not failed.
C25_UnparsableBodyFallsBack ==
    \A r \in Runs : apiOutcome[r] = "parse" =>
        /\ results[r] \in FallbackResults
        /\ errorsSet[r] = 0
        /\ Active(r) => (error = Null /\ delivered[r] = << >>)
        /\ pc[r] = "done" => delivered[r] = << results[r] >>
        /\ fetches[r] = 1

C25_Witness ==
    /\ apiOutcome[1] = "parse"
    /\ pc[1] = "done"
    /\ Len(delivered[1]) = 1
    /\ error = Null

\* Run r has left the analysis phase: it is in the closing loop or beyond.
PastAnalysis(r) == pc[r] \in {"closing", "finalPause", "done"}

\* fetch is called only once every uploading and transcribing tick is out.
FetchAfterTicks ==
    \A r \in Runs : fetches'[r] # fetches[r] =>
        /\ fetches[r] = 0
        /\ i[r] = TranscribeEnd
        /\ uploadProgress' = TranscribeEnd
        /\ processingStep' = "Analyzing..."

C27_IdleIsClean ==
    ~isProcessing => (uploadProgress = 0 /\ processingStep = "")

\* One run has delivered and one has failed; the component is idle.
C27_Witness ==
    /\ ~isProcessing
    /\ pc[1] = "done" /\ Len(delivered[1]) = 1
    /\ pc[2] = "done" /\ errorsSet[2] = 1

\* checkApiHealth call p has run to its end.
ProbeDone(p) == probe[p] \in {"online", "offline", "rejected"}

\* What call p passed to setApiStatus.
ProbeOutcome(p) == IF probe[p] = "online" THEN "online" ELSE "offline"

\* C28: apiStatus is never 'checking' once a probe has completed, and once
\* every started probe has completed it equals the outcome of the probe
\* started last.
C28_StatusFollowsLatestProbe ==
    /\ (\E p \in Probes : ProbeDone(p)) => apiStatus # "checking"
    /\ (nprobes >= 1 /\ \A p \in 1 .. nprobes : ProbeDone(p)) =>
          apiStatus = ProbeOutcome(nprobes)

EndsWith(s, suffix) ==
    /\ Len(suffix) <= Len(s)
    /\ SubSeq(s, Len(s) - Len(suffix) + 1, Len(s)) = suffix

\* The base address without its trailing '/api/v1' or '/api'.
HealthBase(baseURL) ==
    IF EndsWith(baseURL, "/api/v1") THEN SubSeq(baseURL, 1, Len(baseURL) - Len("/api/v1"))
    ELSE IF EndsWith(baseURL, "/api") THEN SubSeq(baseURL, 1, Len(baseURL) - Len("/api"))
    ELSE baseURL

\* C29: healthCheck probes the base address with its trailing '/api' or
\* '/api/v1' removed and '/health' appended; nothing else of the base
\* address changes.
C29_HealthURL ==
    call.fn = "healthURL" => call.out = HealthBase(call.arg[1]) \o "/health"
====
